---- MODULE Spec2Model ----
(***************************************************************************)
(* A model of the device-under-test (DUT) engine of netcam-aiomeraki:      *)
(* the per-session API cache (api_cache_get), the tenacity rate-limit      *)
(* retry wrappers, and the setup / execute_checks / teardown methods of    *)
(* MerakiDeviceUnderTest.  Tasks are asyncio coroutines; every action is   *)
(* the code that runs between two suspension points (await) of one task.   *)
(***************************************************************************)
EXTENDS Integers, Sequences, FiniteSets, TLC

\* ------------------------------------------------------------------------
\* Bounds of the model and constants of the program
\* ------------------------------------------------------------------------

\* cap on the successful remote invocations the model counts per cache key
MaxCalls == 2

\* stop_after_attempt(5)
MaxAttempts == 5

\* ping_check(self, timeout=5)
PingTimeout == 5

\* HTTPStatus.TOO_MANY_REQUESTS
TOO_MANY_REQUESTS == 429

DUTs == {"d1", "d2", "d3"}
Tasks == {"t1", "t2"}
NoTask == "no_task"
NoDut == "no_dut"

\* cache keys used by the accessors (get_org_id, get_lldp_status)
Keys == {"orgs", "lldp_status"}

\* cache keys of the accessors only some product families call
\* (get_port_status, get_mgmt_iface, get_vlans)
HandlerKeys == {"ports_status", "config_mgmt_iface", "vlans"}
AllKeys == Keys \cup HandlerKeys

\* API calls in dotted notation; api_cache_get takes any call with any key
Calls == {"organizations.getOrganizations", "devices.getDeviceLldpCdp"}

\* A decoded API payload is a list, modelled by the set of its members.  The
\* members of an organizations payload are organization names.
Items == {"acme", "other"}
Payloads == {{}, {"acme"}, {"other"}}

\* inventory records the dashboard may return for a device name
Records == {"r1", "r2"}
InventoryAnswers == {<<>>, <<"r1">>, <<"r1", "r2">>}
NoRecord == "None"

\* process-wide plugin configuration (g_meraki.config), as plugin_init stores it
NoValue == "None"
Configs == { [org_id |-> "o1", org_name |-> NoValue],
             [org_id |-> NoValue, org_name |-> "acme"],
             [org_id |-> NoValue, org_name |-> NoValue] }

\* g_meraki.config before a plugin_init hook has stored one (None), and the
\* argument of a call that takes none; records, as configs and devices are
NoConfig == [config |-> "None"]
NoArg == [arg |-> "None"]

\* the devices of a design handed to plugin_get_dut: os_name, and
\* product_model as the sequence of its characters
OsNames == {"meraki", "ios"}
ProductModels == { <<"M", "X", "6", "4">>, <<"M", "S", "1", "2", "0">>,
                   <<"M", "R", "3", "3">>, <<"Z", "3">>, <<"M">>, << >> }
Devices == [os_name : OsNames, product_model : ProductModels]

\* environ.get("MERAKI_ORGID") of the process, in which the variable is unset
EnvOrgId == NoValue

\* the errors the remote invocation capability raises
RemoteErrors == {"AsyncAPIError429", "AsyncAPIError404", "ClientError"}

\* the statuses of a ping job as the dashboard reports them
PingStatuses == {"complete", "ready", "running", "failed"}

\* check-collection kinds: "device" is registered on the base class,
\* "cabling" on every product family, "transceivers" nowhere
Kinds == {"device", "cabling", "transceivers"}

\* with "ipaddrs", which the appliance and wireless classes register and the
\* switch class does not
AllKinds == Kinds \cup {"ipaddrs"}

\* the DUT class plugin_get_dut constructed for each session
DutFamily(d) ==
    IF d = "d1" THEN "wireless" ELSE IF d = "d2" THEN "switch" ELSE "appliance"

\* the retry policies: the ping wrappers of ping_check, and api_request_retry
Policies == {"ping", "api"}

VARIABLES
    g_config,                 \* g_meraki.config
    meraki_orgid,             \* [DUTs -> org id or NoValue]
    meraki_device,            \* [DUTs -> inventory record or NoRecord]
    meraki_device_reachable,  \* [DUTs -> BOOLEAN]
    api_cache,                \* [DUTs -> function from the cached keys to payloads]
    lock_holder,              \* [DUTs -> task holding _api_cache_lock, or NoTask]
    lock_waiters,             \* [DUTs -> FIFO of the tasks waiting for the lock]
    task,                     \* [Tasks -> frame of the coroutine the task runs]
    remote_ok,                \* [DUTs -> [Keys -> remote invocations that returned]]
    life,                     \* [DUTs -> lifecycle state the calls so far amount to]
    ever_failed,              \* [DUTs -> a setup() of the session has raised]
    probe_all_failed          \* [DUTs -> every poll of the last ended setup() returned "failed"]

vars == << g_config, meraki_orgid, meraki_device, meraki_device_reachable,
           api_cache, lock_holder, lock_waiters, task, remote_ok,
           life, ever_failed, probe_all_failed >>

dut_vars == << meraki_orgid, meraki_device, meraki_device_reachable >>
cache_vars == << api_cache, lock_holder, lock_waiters, remote_ok >>
life_vars == << life, ever_failed, probe_all_failed >>

\* ------------------------------------------------------------------------
\* Frames: the position and the locals of the coroutine a task runs
\* ------------------------------------------------------------------------

IdleFrame ==
    [ pc |-> "idle", op |-> "none", dut |-> NoDut, key |-> "none",
      call |-> "none", kind |-> "none", handler |-> "none",
      life_at_call |-> "none",
      policy |-> "none", stage |-> "none", attempt |-> 0, calls |-> 0,
      waits |-> 0, sleep |-> 0, last_exc |-> "none",
      timeout |-> 0, polls |-> 0, ping_status |-> "none", all_failed |-> FALSE,
      caught |-> "none", inv_len |-> -1, arg |-> NoArg, results |-> << >>,
      ret_kind |-> "none", ret |-> {}, err |-> "none" ]

\* a task may start a new operation when it runs none
Free(t) == task[t].pc \in {"idle", "done", "raised"}

Returned(f, kind, v) ==
    [f EXCEPT !.pc = "done", !.ret_kind = kind, !.ret = v, !.call = "none"]

Raised(f, e) == [f EXCEPT !.pc = "raised", !.err = e, !.call = "none"]

\* The lifecycle state of session d once task frame f2 is the latest event.
LifeAfter(d, f2) ==
    IF f2.op # "setup" THEN life
    ELSE IF f2.pc = "done" THEN [life EXCEPT ![d] = "Ready"]
    ELSE IF f2.pc = "raised"
         THEN [life EXCEPT ![d] = IF f2.err = "RuntimeError_unreachable"
                                  THEN "Unreachable" ELSE "Failed"]
    ELSE [life EXCEPT ![d] = "SettingUp"]

FailedAfter(d, f2) ==
    IF f2.op = "setup" /\ f2.pc = "raised"
    THEN [ever_failed EXCEPT ![d] = TRUE]
    ELSE ever_failed

ProbeAfter(d, f2) ==
    IF f2.op = "setup" /\ f2.pc \in {"done", "raised"}
    THEN [probe_all_failed EXCEPT ![d] = f2.all_failed /\ f2.polls > 0]
    ELSE probe_all_failed

\* ------------------------------------------------------------------------
\* api_cache_get
\* ------------------------------------------------------------------------

\* Python truthiness of a payload: an empty list is falsy
Truthy(v) == v # {}

\* The cache test of api_cache_get finds data: dict.get gives None for a
\* missing key, and the walrus test treats None and an empty payload alike.
HasData(c, k) == k \in DOMAIN c /\ Truthy(c[k])

\* self._api_cache[key] = has_data
CacheStore(c, k, v) == [x \in (DOMAIN c) \cup {k} |-> IF x = k THEN v ELSE c[x]]

\* a cache that memoizes a failed call as a payload
CacheOnRaiseMemoized(c, k) == CacheStore(c, k, {"other"})

\* The cache after the remote call raised inside the `async with` blocks: the
\* assignment that follows the await is not reached.
CacheOnRaise(c, k) == c

\* one lock that all sessions share
LockOfClass(d) == "d1"

\* self._api_cache_lock: __init__ creates one asyncio.Lock per session
LockOf(d) == d

\* a lock that never makes a caller wait
LockIgnored(d) == TRUE

\* asyncio.Lock.acquire does not suspend when the lock is free and nobody waits
LockFree(d) == lock_holder[LockOf(d)] = NoTask /\ lock_waiters[LockOf(d)] = <<>>

\* an exit that leaves the lock with the task that held it
HolderKept(d) == lock_holder[LockOf(d)]

\* asyncio.Lock.release wakes the first waiter, which then owns the lock
HolderAfterRelease(d) ==
    IF lock_waiters[LockOf(d)] = <<>> THEN NoTask ELSE Head(lock_waiters[LockOf(d)])

WaitersAfterRelease(d) ==
    IF lock_waiters[LockOf(d)] = <<>> THEN <<>> ELSE Tail(lock_waiters[LockOf(d)])

\* g_meraki.org_name, g_meraki.org_id
org_name == g_config.org_name
org_id == g_config.org_id

\* next(iter(org for org in orgs if org["name"] == g_meraki.org_name), None)
OrgFound(orgs) == org_name \in orgs

\* found_org["id"]
OrgIdOf(name) == "id_of_" \o name

\* the cabling handlers of the wireless and appliance classes return None when
\* `if not (api_data := await dut.get_lldp_status())` finds no data
SkipsOnEmpty(h) == h \in {"wireless_cabling", "appliance_cabling"}

\* What the caller of api_cache_get does with the value v it gets back, as far
\* as its next suspension point: get_org_id within setup() goes on to the
\* inventory lookup, the cabling handler returns its results, and a bare
\* accessor call returns the payload.
FrameAfterGet(f, v) ==
    CASE f.op = "setup" ->
            IF OrgFound(v)
            THEN [f EXCEPT !.pc = "inventory", !.call = "none"]
            ELSE Raised(f, "RuntimeError_no_organization")
      [] f.op = "exec" ->
            IF SkipsOnEmpty(f.handler) /\ ~Truthy(v)
            THEN Returned(f, "None", {})
            ELSE Returned(f, "results", v)
      [] OTHER -> Returned(f, "payload", v)

\* a get_org_id that finds the organization and does not assign its id
OrgIdNotStored(f, v) == meraki_orgid

\* `self.meraki_orgid = found_org["id"]` when get_org_id finds the organization
OrgIdAfterGet(f, v) ==
    IF f.op = "setup" /\ OrgFound(v)
    THEN [meraki_orgid EXCEPT ![f.dut] = OrgIdOf(org_name)]
    ELSE meraki_orgid

\* the tasks inside api_cache_get of session d for key k
PendingOn(d, k) ==
    {u \in Tasks : task[u].dut = d /\ task[u].key = k
                      /\ task[u].pc \in {"fetch", "lock_wait"}}

\* `async with self._api_cache_lock:` and the cache test, as far as the first
\* suspension point: the task returns a cached value, starts the remote
\* invocation holding the lock, or queues for the lock.
EnterCacheGet(t, f) ==
    LET d == f.dut
        k == f.key
        hit == FrameAfterGet(f, api_cache[d][k])
    IN  IF LockFree(d)
        THEN IF HasData(api_cache[d], k)
             THEN /\ task' = [task EXCEPT ![t] = hit]
                  /\ meraki_orgid' = OrgIdAfterGet(f, api_cache[d][k])
                  /\ life' = LifeAfter(d, hit)
                  /\ ever_failed' = FailedAfter(d, hit)
                  /\ probe_all_failed' = ProbeAfter(d, hit)
                  /\ UNCHANGED cache_vars
             ELSE /\ remote_ok[d][k] < MaxCalls
                  /\ task' = [task EXCEPT ![t] = [f EXCEPT !.pc = "fetch"]]
                  /\ lock_holder' = [lock_holder EXCEPT ![LockOf(d)] = t]
                  /\ life' = LifeAfter(d, f)
                  /\ UNCHANGED << meraki_orgid, api_cache, lock_waiters,
                                  remote_ok, ever_failed, probe_all_failed >>
        ELSE /\ remote_ok[d][k] + Cardinality(PendingOn(d, k)) < MaxCalls
             /\ task' = [task EXCEPT ![t] = [f EXCEPT !.pc = "lock_wait"]]
             /\ lock_waiters' = [lock_waiters EXCEPT ![LockOf(d)] = Append(@, t)]
             /\ life' = LifeAfter(d, f)
             /\ UNCHANGED << meraki_orgid, api_cache, lock_holder,
                             remote_ok, ever_failed, probe_all_failed >>

\* A task calls dut.api_cache_get(key=k, call=c) on session d.
ApiCacheGet(t, d, k, c) ==
    /\ Free(t)
    /\ EnterCacheGet(t, [IdleFrame EXCEPT !.pc = "enter", !.op = "get",
                                           !.dut = d, !.key = k, !.call = c])
    /\ UNCHANGED << g_config, meraki_device, meraki_device_reachable >>

\* A waiter that release() woke owns the lock and runs the cache test.
LockWake(t) ==
    LET f == task[t]
        d == f.dut
        k == f.key
        hit == FrameAfterGet(f, api_cache[d][k])
    IN  /\ f.pc = "lock_wait"
        /\ lock_holder[LockOf(d)] = t
        /\ IF HasData(api_cache[d], k)
           THEN /\ task' = [task EXCEPT ![t] = hit]
                /\ meraki_orgid' = OrgIdAfterGet(f, api_cache[d][k])
                /\ life' = LifeAfter(d, hit)
                /\ ever_failed' = FailedAfter(d, hit)
                /\ probe_all_failed' = ProbeAfter(d, hit)
                /\ lock_holder' = [lock_holder EXCEPT ![LockOf(d)] = HolderAfterRelease(d)]
                /\ lock_waiters' = [lock_waiters EXCEPT ![LockOf(d)] = WaitersAfterRelease(d)]
                /\ UNCHANGED << api_cache, remote_ok >>
           ELSE /\ remote_ok[d][k] < MaxCalls
                /\ task' = [task EXCEPT ![t] = [f EXCEPT !.pc = "fetch"]]
                /\ UNCHANGED << meraki_orgid, api_cache, lock_holder, lock_waiters,
                                remote_ok, life_vars >>
        /\ UNCHANGED << g_config, meraki_device, meraki_device_reachable >>

\* `has_data = await meth(**kwargs)` returns payload p: it is stored under the
\* key, the lock is released and the value returned to the caller.
FetchReturn(t, p) ==
    LET f == task[t]
        d == f.dut
        k == f.key
    IN  /\ f.pc = "fetch"
        /\ api_cache' = [api_cache EXCEPT ![d] = CacheStore(@, k, p)]
        /\ remote_ok' = [remote_ok EXCEPT ![d][k] = @ + 1]
        /\ lock_holder' = [lock_holder EXCEPT ![LockOf(d)] = HolderAfterRelease(d)]
        /\ lock_waiters' = [lock_waiters EXCEPT ![LockOf(d)] = WaitersAfterRelease(d)]
        /\ task' = [task EXCEPT ![t] = FrameAfterGet(f, p)]
        /\ meraki_orgid' = OrgIdAfterGet(f, p)
        /\ life' = LifeAfter(d, FrameAfterGet(f, p))
        /\ ever_failed' = FailedAfter(d, FrameAfterGet(f, p))
        /\ probe_all_failed' = ProbeAfter(d, FrameAfterGet(f, p))
        /\ UNCHANGED << g_config, meraki_device, meraki_device_reachable >>

\* `await meth(**kwargs)` raises e: both `async with` blocks are left, the lock
\* is released, and e propagates to the caller of api_cache_get (and out of
\* get_org_id and setup(), or out of the handler).
FetchRaise(t, e) ==
    LET f == task[t]
        d == f.dut
    IN  /\ f.pc = "fetch"
        /\ api_cache' = [api_cache EXCEPT ![d] = CacheOnRaise(@, f.key)]
        /\ lock_holder' = [lock_holder EXCEPT ![LockOf(d)] = HolderAfterRelease(d)]
        /\ lock_waiters' = [lock_waiters EXCEPT ![LockOf(d)] = WaitersAfterRelease(d)]
        /\ task' = [task EXCEPT ![t] = Raised(f, e)]
        /\ life' = LifeAfter(d, Raised(f, e))
        /\ ever_failed' = FailedAfter(d, Raised(f, e))
        /\ probe_all_failed' = ProbeAfter(d, Raised(f, e))
        /\ UNCHANGED << g_config, dut_vars, remote_ok >>

\* ------------------------------------------------------------------------
\* The tenacity rate-limit retry policy
\* ------------------------------------------------------------------------

\* hasattr(rt_exc, "status"): an AsyncAPIError carries the HTTP status
HasStatus(e) == e \in {"AsyncAPIError429", "AsyncAPIError404"}

\* rt_exc.status: 429, or 404 for the other AsyncAPIError of the model
StatusOf(e) == IF e = "AsyncAPIError429" THEN TOO_MANY_REQUESTS ELSE 404

\* a predicate that retries every error that carries a status
RetryOnAnyStatus(e) == HasStatus(e)

\* retry_on_429 on a failed outcome: retry only a status of 429
RetryOn429(e) == HasStatus(e) /\ StatusOf(e) = TOO_MANY_REQUESTS

\* a stop condition that is one attempt late
StopAfterAttemptLate(attempt) == attempt > MaxAttempts

\* stop_after_attempt(5)
StopAfterAttempt(attempt) == attempt >= MaxAttempts

RECURSIVE Pow2(_)
Pow2(n) == IF n <= 0 THEN 1 ELSE 2 * Pow2(n - 1)

Max(a, b) == IF a >= b THEN a ELSE b
Min(a, b) == IF a <= b THEN a ELSE b

\* wait_exponential(multiplier=1, min=4, max=10) of the ping wrappers and
\* wait_exponential(min=10, max=120) of api_request_retry, as tenacity 8
\* computes it: max(max(0, min), min(multiplier * 2 ** (attempt - 1), max))
WaitExponential(policy, attempt) ==
    IF policy = "ping"
    THEN Max(Max(0, 4), Min(1 * Pow2(attempt - 1), 10))
    ELSE Max(Max(0, 10), Min(1 * Pow2(attempt - 1), 120))

\* The first attempt of a wrapped call.
FirstAttempt(f, policy, stage) ==
    [f EXCEPT !.pc = "req", !.policy = policy, !.stage = stage, !.attempt = 1,
              !.calls = @ + 1, !.waits = 0, !.sleep = 0, !.last_exc = "none"]

\* What tenacity does with a failed attempt: "backoff" (sleep, then call
\* again), or the error it raises to the caller of the wrapped function.
RetryVerdict(f, e) ==
    IF RetryOn429(e)
    THEN IF StopAfterAttempt(f.attempt) THEN "RetryError" ELSE "backoff"
    ELSE e

\* ------------------------------------------------------------------------
\* ping_check and setup
\* ------------------------------------------------------------------------

\* ping_check["status"] in ("complete", "ready")
ReachableStatus(s) == s \in {"complete", "ready"}

\* The locals of the retry wrapper are gone once ping_check is left.
Unwind(f) ==
    [f EXCEPT !.policy = "none", !.stage = "none", !.attempt = 0, !.calls = 0,
              !.waits = 0, !.sleep = 0, !.last_exc = "none"]

\* The end of ping_check and of setup(): the reachable flag is computed from
\* the last status and setup() raises when the device is not reachable.
PingFinal(f) ==
    IF ReachableStatus(f.ping_status)
    THEN Returned(Unwind(f), "None", {})
    ELSE Raised(Unwind(f), "RuntimeError_unreachable")

\* an except clause that names the API error only
PingCaughtApiOnly(x) == x \in {"AsyncAPIError429", "AsyncAPIError404"}

\* `except (AsyncAPIError, RetryError)` around the two ping wrappers
PingCaught(x) == x \in {"AsyncAPIError429", "AsyncAPIError404", "RetryError"}

\* The `while timeout:` test after the job was created or a poll was counted.
PollOrFinish(f) ==
    IF f.timeout # 0 THEN [f EXCEPT !.pc = "poll_sleep"] ELSE PingFinal(f)

\* The wrapped call of frame f returned; s is the job status it carries.
FrameAfterReqReturn(f, s) ==
    CASE f.op = "request" -> Returned(f, "payload", {})
      [] f.stage = "create" -> PollOrFinish(f)
      [] OTHER ->
            LET g == [f EXCEPT !.ping_status = s, !.polls = @ + 1,
                               !.all_failed = @ /\ s = "failed"]
            IN  IF s = "complete" THEN PingFinal(g)
                ELSE PollOrFinish([g EXCEPT !.timeout = @ - 1])

\* The wrapped call of frame f raised x to its caller.
FrameAfterReqRaise(f, x) ==
    IF f.op = "setup"
    THEN IF PingCaught(x)
         THEN Returned(Unwind([f EXCEPT !.caught = x]), "None", {})
         ELSE Raised(Unwind(f), x)
    ELSE Raised(f, x)

\* A task calls setup() on session d: get_org_id runs as far as its first
\* suspension point.  While no config is stored, g_meraki.org_id is
\* None.get(...), an AttributeError.
Setup(t, d) ==
    LET f == [IdleFrame EXCEPT !.pc = "enter", !.op = "setup", !.dut = d]
    IN  /\ Free(t)
        /\ IF g_config = NoConfig
           THEN /\ task' = [task EXCEPT ![t] = Raised(f, "AttributeError")]
                /\ life' = LifeAfter(d, Raised(f, "AttributeError"))
                /\ ever_failed' = [ever_failed EXCEPT ![d] = TRUE]
                /\ probe_all_failed' = [probe_all_failed EXCEPT ![d] = FALSE]
                /\ UNCHANGED << meraki_orgid, cache_vars >>
           ELSE IF org_id # NoValue
           THEN /\ meraki_orgid' = [meraki_orgid EXCEPT ![d] = org_id]
                /\ task' = [task EXCEPT ![t] = [f EXCEPT !.pc = "inventory"]]
                /\ life' = [life EXCEPT ![d] = "SettingUp"]
                /\ UNCHANGED << cache_vars, ever_failed, probe_all_failed >>
           ELSE IF org_name = NoValue
           THEN /\ task' = [task EXCEPT ![t] = Raised(f, "RuntimeError_org_name")]
                /\ life' = LifeAfter(d, Raised(f, "RuntimeError_org_name"))
                /\ ever_failed' = [ever_failed EXCEPT ![d] = TRUE]
                /\ probe_all_failed' = [probe_all_failed EXCEPT ![d] = FALSE]
                /\ UNCHANGED << meraki_orgid, cache_vars >>
           ELSE EnterCacheGet(t, [f EXCEPT !.key = "orgs",
                                  !.call = "organizations.getOrganizations"])
        /\ UNCHANGED << g_config, meraki_device, meraki_device_reachable >>

\* get_inventory_device(single=True): None for an empty answer, else the
\* first record
InventoryDevice(api_data) ==
    IF Len(api_data) = 0 THEN NoRecord ELSE api_data[1]

\* getOrganizationDevices returns api_data: setup() raises when no device is
\* found, else stores the record and starts the ping check.
InventoryReturn(t, api_data) ==
    LET f == [task[t] EXCEPT !.inv_len = Len(api_data)]
        d == f.dut
        dev == InventoryDevice(api_data)
        f2 == IF dev = NoRecord
              THEN Raised(f, "RuntimeError_not_found")
              ELSE FirstAttempt([f EXCEPT !.timeout = PingTimeout,
                                          !.ping_status = "timeout",
                                          !.all_failed = TRUE],
                                "ping", "create")
    IN  /\ task[t].pc = "inventory"
        /\ task' = [task EXCEPT ![t] = f2]
        /\ meraki_device' = IF dev = NoRecord THEN meraki_device
                            ELSE [meraki_device EXCEPT ![d] = dev]
        /\ life' = LifeAfter(d, f2)
        /\ ever_failed' = FailedAfter(d, f2)
        /\ probe_all_failed' = ProbeAfter(d, f2)
        /\ UNCHANGED << g_config, meraki_orgid, meraki_device_reachable,
                        cache_vars >>

\* getOrganizationDevices raises e, which leaves setup().
InventoryRaise(t, e) ==
    LET f == task[t]
        d == f.dut
    IN  /\ f.pc = "inventory"
        /\ task' = [task EXCEPT ![t] = Raised(f, e)]
        /\ life' = LifeAfter(d, Raised(f, e))
        /\ ever_failed' = FailedAfter(d, Raised(f, e))
        /\ probe_all_failed' = ProbeAfter(d, Raised(f, e))
        /\ UNCHANGED << g_config, dut_vars, cache_vars >>

\* The remote call of a wrapped function returns.
ReqReturn(t, s) ==
    LET f == task[t]
        d == f.dut
        f2 == FrameAfterReqReturn(f, s)
    IN  /\ f.pc = "req"
        /\ task' = [task EXCEPT ![t] = f2]
        /\ meraki_device_reachable' =
              IF f.op = "setup" /\ f2.pc \in {"done", "raised"}
              THEN [meraki_device_reachable EXCEPT
                        ![d] = ReachableStatus(f2.ping_status)]
              ELSE meraki_device_reachable
        /\ life' = IF f.op = "setup" THEN LifeAfter(d, f2) ELSE life
        /\ ever_failed' = IF f.op = "setup" THEN FailedAfter(d, f2)
                          ELSE ever_failed
        /\ probe_all_failed' = IF f.op = "setup" THEN ProbeAfter(d, f2)
                         ELSE probe_all_failed
        /\ UNCHANGED << g_config, meraki_orgid, meraki_device, cache_vars >>

\* The remote call of a wrapped function raises e: tenacity sleeps before
\* another attempt, or raises to the caller.
ReqRaise(t, e) ==
    LET f == [task[t] EXCEPT !.last_exc = e]
        d == f.dut
        v == RetryVerdict(f, e)
        f2 == IF v = "backoff"
              THEN [f EXCEPT !.pc = "backoff", !.waits = @ + 1,
                             !.sleep = WaitExponential(f.policy, f.attempt)]
              ELSE FrameAfterReqRaise(f, v)
    IN  /\ task[t].pc = "req"
        /\ task' = [task EXCEPT ![t] = f2]
        /\ meraki_device_reachable' =
              IF f.op = "setup" /\ f2.pc = "done"
              THEN [meraki_device_reachable EXCEPT ![d] = TRUE]
              ELSE meraki_device_reachable
        /\ life' = IF f.op = "setup" THEN LifeAfter(d, f2) ELSE life
        /\ ever_failed' = IF f.op = "setup" THEN FailedAfter(d, f2)
                          ELSE ever_failed
        /\ probe_all_failed' = IF f.op = "setup" THEN ProbeAfter(d, f2)
                         ELSE probe_all_failed
        /\ UNCHANGED << g_config, meraki_orgid, meraki_device, cache_vars >>

\* The backoff sleep ends: the next attempt is made.
BackoffWake(t) ==
    /\ task[t].pc = "backoff"
    /\ task' = [task EXCEPT ![t] = [@ EXCEPT !.pc = "req", !.attempt = @ + 1,
                                             !.calls = @ + 1]]
    /\ UNCHANGED << g_config, dut_vars, cache_vars, life_vars >>

\* `await asyncio.sleep(1)` of the poll loop ends: the job status is polled.
PollWake(t) ==
    /\ task[t].pc = "poll_sleep"
    /\ task' = [task EXCEPT ![t] =
                  FirstAttempt([task[t] EXCEPT !.calls = 0], "ping", "check")]
    /\ UNCHANGED << g_config, dut_vars, cache_vars, life_vars >>

\* A task calls a function wrapped by one of the retry policies on its own:
\* a dashboard session request under api_request_retry, or a ping wrapper.
WrappedRequest(t, policy) ==
    /\ Free(t)
    /\ task' = [task EXCEPT ![t] =
                  FirstAttempt([IdleFrame EXCEPT !.op = "request"], policy, "none")]
    /\ UNCHANGED << g_config, dut_vars, cache_vars, life_vars >>

\* ------------------------------------------------------------------------
\* execute_checks and teardown
\* ------------------------------------------------------------------------

\* a switch class that also registers an "ipaddrs" handler
FamilyRegisteredAll(family, kind) == kind \in {"cabling", "ipaddrs"}

\* the kinds registered with execute_checks of the product-family classes
FamilyRegistered(family, kind) ==
    \/ kind = "cabling"
    \/ kind = "ipaddrs" /\ family \in {"appliance", "wireless"}

\* the kinds registered with execute_checks of MerakiDeviceUnderTest
BaseRegistered(kind) == kind = "device"

\* a family default that returns None instead of calling super()
DispatchNoSuper(d, kind) ==
    IF FamilyRegistered(DutFamily(d), kind) THEN DutFamily(d) \o "_" \o kind
    ELSE "none"

\* singledispatchmethod of the family class, whose default calls super()
Dispatch(d, kind) ==
    IF FamilyRegistered(DutFamily(d), kind) THEN DutFamily(d) \o "_" \o kind
    ELSE IF BaseRegistered(kind) THEN "meraki_check_device_info"
    ELSE "none"

\* the accessor a family handler awaits first: its cache key and API call
HandlerKey(h) ==
    CASE h = "switch_cabling" -> "ports_status"
      [] h = "wireless_ipaddrs" -> "config_mgmt_iface"
      [] h = "appliance_ipaddrs" -> "vlans"
      [] OTHER -> "lldp_status"

HandlerCall(h) ==
    CASE h = "switch_cabling" -> "switch.getDeviceSwitchPortsStatuses"
      [] h = "wireless_ipaddrs" -> "devices.getDeviceManagementInterface"
      [] h = "appliance_ipaddrs" -> "appliance.getNetworkApplianceVlans"
      [] OTHER -> "devices.getDeviceLldpCdp"

\* A task calls execute_checks(collection of the given kind) on session d.
\* Without a registered handler it returns None.  A handler reads the device
\* record (model, serial), which raises TypeError while setup() has stored
\* none; a family handler then awaits its accessor.
ExecuteChecks(t, d, kind) ==
    LET h == Dispatch(d, kind)
        f == [IdleFrame EXCEPT !.pc = "enter", !.op = "exec", !.dut = d,
                               !.kind = kind, !.handler = h,
                               !.life_at_call = life[d]]
    IN  /\ Free(t)
        /\ IF h = "none"
           THEN /\ task' = [task EXCEPT ![t] = Returned(f, "None", {})]
                /\ UNCHANGED << meraki_orgid, cache_vars, life_vars >>
           ELSE IF meraki_device[d] = NoRecord
           THEN /\ task' = [task EXCEPT ![t] = Raised(f, "TypeError")]
                /\ UNCHANGED << meraki_orgid, cache_vars, life_vars >>
           ELSE IF h = "meraki_check_device_info"
           THEN /\ task' = [task EXCEPT ![t] =
                              Returned(f, "results", {meraki_device[d]})]
                /\ UNCHANGED << meraki_orgid, cache_vars, life_vars >>
           ELSE EnterCacheGet(t, [f EXCEPT !.key = HandlerKey(h),
                                           !.call = HandlerCall(h)])
        /\ UNCHANGED << g_config, meraki_device, meraki_device_reachable >>

\* A task calls teardown() on session d: nothing is released.
Teardown(t, d) ==
    /\ Free(t)
    /\ task' = [task EXCEPT ![t] =
                  Returned([IdleFrame EXCEPT !.op = "teardown", !.dut = d],
                           "None", {})]
    /\ life' = [life EXCEPT ![d] = "TornDown"]
    /\ UNCHANGED << g_config, dut_vars, cache_vars, ever_failed, probe_all_failed >>

\* ------------------------------------------------------------------------
\* The check handlers, from the payload they fetched to their results
\* ------------------------------------------------------------------------

\* the handlers that loop over the checks of a collection, one interface each
CheckHandlers ==
    { "appliance_interfaces", "appliance_ipaddrs", "appliance_switchports",
      "appliance_cabling", "switch_interfaces", "switch_switchports",
      "switch_cabling", "wireless_interfaces", "wireless_ipaddrs",
      "wireless_switchports", "wireless_cabling" }

\* check identifiers (interface names) of a design, and the collections made
\* of them
CheckIds == {"1", "wan1"}
CheckLists ==
    {<< >>} \cup {<<a>> : a \in CheckIds}
            \cup {c \in CheckIds \X CheckIds : c[1] # c[2]}

\* what the fetched payload holds for an identifier: no entity, an entity
\* that matches the expected values (match_access: an access port whose mode
\* and VLAN match), or one that differs in a field
CheckStatuses == {"absent", "match", "match_access", "differ"}
Measurements == [CheckIds -> CheckStatuses]

\* `if not api_data`: the handlers that return before the loop when the
\* payload is empty
ReturnsEarly(h) ==
    h \in {"wireless_interfaces", "wireless_cabling", "appliance_cabling"}

\* map.get(if_name) finds an entity; the wireless interfaces handler adds
\* map_port_status["wan1"] = True
HasEntity(h, id, msrd) ==
    (h = "wireless_interfaces" /\ id = "wan1") \/ msrd[id] # "absent"

\* the branch of the loop for an identifier without entity: FailNoExists and
\* continue; the appliance interfaces handler continues without a result
OnMissing(h, id) ==
    IF h = "appliance_interfaces" THEN << >> ELSE << <<id, "FailNoExists">> >>

\* The results of one pass of the loop. The switch switchports handler
\* extends the results by what the mode handler returns, and
\* _check_access_switchport returns an empty list for a port that matches.
CheckOne(h, id, msrd) ==
    IF ~HasEntity(h, id, msrd) THEN OnMissing(h, id)
    ELSE IF h = "wireless_interfaces" /\ id = "wan1" THEN << >>
    ELSE IF msrd[id] = "differ" THEN << <<id, "FailFieldMismatch">> >>
    ELSE IF h = "switch_switchports" /\ msrd[id] = "match_access" THEN << >>
    ELSE << <<id, "Pass">> >>

RECURSIVE CheckLoop(_, _, _, _)
CheckLoop(h, checks, msrd, i) ==
    IF i > Len(checks) THEN << >>
    ELSE CheckOne(h, checks[i], msrd) \o CheckLoop(h, checks, msrd, i + 1)

\* the exclusive-list check that ends the ip-address handlers: extras only
IpExclusive(h, checks, msrd) ==
    IF h \notin {"appliance_ipaddrs", "wireless_ipaddrs"} THEN << >>
    ELSE IF {id \in CheckIds : msrd[id] # "absent"}
               \ {checks[i] : i \in 1..Len(checks)} # {}
         THEN << <<"exclusive_list", "FailExtraMembers">> >>
         ELSE << <<"exclusive_list", "Pass">> >>

\* A handler h, having fetched its payload, evaluates the collection.
EvaluateChecks(t, h, checks, msrd, has_data) ==
    LET f == [IdleFrame EXCEPT !.op = "check", !.handler = h,
                 !.arg = [checks |-> checks, measured |-> msrd,
                          has_data |-> has_data]]
    IN  /\ Free(t)
        /\ has_data \/ \A id \in CheckIds : msrd[id] = "absent"
        /\ task' = [task EXCEPT ![t] =
              IF ReturnsEarly(h) /\ ~has_data
              THEN IF h = "wireless_interfaces"
                   THEN Returned([f EXCEPT !.results = << <<"none", "Skip">> >>],
                                 "results", {})
                   ELSE Returned(f, "None", {})
              ELSE Returned([f EXCEPT !.results =
                                CheckLoop(h, checks, msrd, 1)
                                    \o IpExclusive(h, checks, msrd)],
                            "results", {})]
        /\ UNCHANGED << g_config, dut_vars, cache_vars, life_vars >>

\* ------------------------------------------------------------------------
\* The VLAN handlers: the exclusive list, then one check per VLAN
\* ------------------------------------------------------------------------

\* VLAN ids of a design or a device
VlanIds == {10, 20, 30}

\* a merged report: one failure for both differences
ExclusiveListMerged(E, M) ==
    IF E = M THEN << <<"exclusive_list", "Pass", M>> >>
    ELSE << <<"exclusive_list", "FailMissingMembers", (E \ M) \cup (M \ E)>> >>

\* _check_exclusive_list / _test_exclusive_list: expected set E against
\* measured set M; sorted() of a set is modelled by the set.
ExclusiveList(E, M) ==
    LET missing == IF E \ M # {}
                   THEN << <<"exclusive_list", "FailMissingMembers", E \ M>> >>
                   ELSE << >>
        extras  == IF M \ E # {}
                   THEN << <<"exclusive_list", "FailExtraMembers", M \ E>> >>
                   ELSE << >>
        results == missing \o extras
    IN  IF Len(results) = 0
        THEN << <<"exclusive_list", "Pass", M>> >>
        ELSE results

\* the families whose vlans handler ends in the exclusive-list function
VlanFamilies == {"appliance", "switch", "wireless"}

\* The exclusive-list function of a family is applied to E and M.
CheckExclusiveList(t, family, E, M) ==
    /\ Free(t)
    /\ task' = [task EXCEPT ![t] =
          Returned([IdleFrame EXCEPT !.op = "exclusive_list",
                       !.handler = family \o "_vlans",
                       !.arg = [expected |-> E, measured |-> M],
                       !.results = ExclusiveList(E, M)],
                   "results", {})]
    /\ UNCHANGED << g_config, dut_vars, cache_vars, life_vars >>

\* interface names of a design, and the names a device reports for its ports
ExpdIfNames == {"1", "wan1", "Vlan10"}
MsrdIfNames == {"1"}

\* the VLAN checks of a design: the check id is the VLAN id in decimal
VlanCheckIds == {"10", "20"}
VlanChecks == [id : VlanCheckIds, interfaces : SUBSET ExpdIfNames]
VlanCheckLists ==
    {<<c>> : c \in {x \in VlanChecks : x.id = "10"}}
        \cup {c \in VlanChecks \X VlanChecks : c[1].id = "10" /\ c[2].id = "20"}

\* int(check.check_id())
IntOfId(id) == CASE id = "10" -> 10 [] id = "20" -> 20 [] OTHER -> 30

\* int(name) succeeds on decimal digits only
IsDecimal(name) == name \in {"1", "2"}

\* name.startswith("Vlan")
StartsWithVlan(name) == name \in {"Vlan10"}

\* the expected interface set of a check: the appliance leaves out the SVIs
ExpdIfSet(family, check) ==
    IF family = "appliance"
    THEN {n \in check.interfaces : ~StartsWithVlan(n)}
    ELSE check.interfaces

\* sorted(names, key=int) raises ValueError on a name that is no number
SortedByInt(names) ==
    IF \A n \in names : IsDecimal(n) THEN "sorted" ELSE "ValueError"

\* _check_one_vlan / _test_one_vlan: "ValueError" stands for the exception
\* that leaves the function
CheckOneVlan(family, check, vl2ifs) ==
    LET expd == ExpdIfSet(family, check)
        msrd == vl2ifs[IntOfId(check.id)]
    IN  IF msrd = expd THEN << <<check.id, "Pass", msrd>> >>
        ELSE IF SortedByInt(msrd) = "ValueError"
                  \/ SortedByInt(expd) = "ValueError"
             THEN << <<check.id, "ValueError", {}>> >>
             ELSE << <<check.id, "FailFieldMismatch", msrd>> >>

RECURSIVE VlanLoop(_, _, _, _)
VlanLoop(family, checks, vl2ifs, i) ==
    IF i > Len(checks) THEN << >>
    ELSE LET one == CheckOneVlan(family, checks[i], vl2ifs)
         IN  IF one[1][2] = "ValueError" THEN one
             ELSE one \o VlanLoop(family, checks, vl2ifs, i + 1)

\* The vlans handler of the appliance or the switch, having fetched the port
\* configuration and correlated it into vl2ifs.
CheckVlans(t, family, checks, vl2ifs) ==
    LET E == IF family = "appliance"
             THEN {IntOfId(checks[i].id) :
                      i \in {j \in 1..Len(checks) : checks[j].interfaces # {}}}
             ELSE {IntOfId(checks[i].id) : i \in 1..Len(checks)}
        M == {v \in VlanIds : vl2ifs[v] # {}}
        loop == VlanLoop(family, checks, vl2ifs, 1)
        f == [IdleFrame EXCEPT !.op = "check_vlans",
                 !.handler = family \o "_vlans",
                 !.arg = [checks |-> checks, measured |-> vl2ifs]]
    IN  /\ Free(t)
        /\ task' = [task EXCEPT ![t] =
              IF Len(loop) > 0 /\ loop[Len(loop)][2] = "ValueError"
              THEN Raised(f, "ValueError")
              ELSE Returned([f EXCEPT !.results = ExclusiveList(E, M) \o loop],
                            "results", {})]
        /\ UNCHANGED << g_config, dut_vars, cache_vars, life_vars >>

\* ------------------------------------------------------------------------
\* _correlate_vlans_to_ports of the appliance and of the switch
\* ------------------------------------------------------------------------

\* VLAN ids of port configurations; NoVlan is a port without "vlan" value
PortVlans == {1, 10, 20, 30}
NoVlan == 0

\* allowedVlans: the literal "all" or a compact list
AllowedSpecs == {"all", "1", "1,10"}

\* parse_istrange(s): the set of integers of a compact list; int("all")
\* is a ValueError
ParseRaises(s) == s = "all"
ParseIstrange(s) == IF s = "1" THEN {1} ELSE IF s = "1,10" THEN {1, 10} ELSE {}

\* the port records of a device; the switch has no dropUntaggedTraffic flag
\* and always a vlan
PortRecords ==
    [ enabled : BOOLEAN, type : {"access", "trunk"},
      dropUntaggedTraffic : BOOLEAN, vlan : {NoVlan, 1, 10},
      allowedVlans : AllowedSpecs ]
PortsOf(family) ==
    IF family = "appliance" THEN PortRecords
    ELSE {r \in PortRecords : r.vlan # NoVlan /\ ~r.dropUntaggedTraffic}

\* port-configuration lists: port i of the list has number (portId) i
PortLists(family) ==
    {<< >>} \cup {<<r>> : r \in PortsOf(family)}
            \cup (PortsOf(family) \X PortsOf(family))
PortName(i) == IF i = 1 THEN "1" ELSE "2"

\* the expected VLAN ids a handler passes to its correlator
ExpectedSets == {{}, {1, 10}, {10, 20, 30}}

\* a correlator that classifies no port as unused
IsUnusedNever(family, r) == FALSE

\* is_unused_port (appliance), and is_unused (switch), which the switch
\* asks of access ports only
IsUnused(family, r) ==
    IF family = "appliance"
    THEN ~r.enabled /\ r.type = "trunk" /\ r.dropUntaggedTraffic
    ELSE r.type = "access" /\ r.vlan = 1 /\ ~r.enabled

\* the VLANs a trunk port allows: the expected ids for "all" (the appliance:
\* only when the port is enabled), else the parsed list
ExpandsAll(family, r) ==
    r.allowedVlans = "all" /\ (family = "appliance" => r.enabled)

AllIntfVlans(family, r, E) ==
    IF ExpandsAll(family, r) THEN E ELSE ParseIstrange(r.allowedVlans)

\* one pass of the loop raises in parse_istrange
PortRaises(family, r) ==
    /\ ~IsUnused(family, r) /\ r.type = "trunk"
    /\ ~ExpandsAll(family, r) /\ ParseRaises(r.allowedVlans)

\* the VLANs under which one pass of the loop adds the port to
\* map_vlans_to_interfaces
IndexVlans(family, r, E) ==
    IF IsUnused(family, r) THEN {}
    ELSE IF r.type = "access"
         THEN (IF r.vlan # NoVlan THEN {r.vlan} ELSE {})
         ELSE IF family = "appliance"
              THEN (IF r.vlan # NoVlan THEN {r.vlan} ELSE {})
                       \cup AllIntfVlans(family, r, E)
              ELSE AllIntfVlans(family, r, E)

\* the VLANs one pass of the switch's loop adds to all_device_vlans
DeviceVlans(r, E) ==
    IF IsUnused("switch", r) THEN {}
    ELSE IF r.type = "access" THEN {r.vlan}
         ELSE {r.vlan} \cup AllIntfVlans("switch", r, E)

\* map_vlans_to_interfaces after the loop; a VLAN is a key of the defaultdict
\* iff its set is not empty
LoopIndex(family, ports, E) ==
    [v \in PortVlans |->
        {PortName(i) : i \in {j \in 1..Len(ports) :
                                 v \in IndexVlans(family, ports[j], E)}}]

\* the post-pass: VLAN 1 is deleted when as many ports of its set are
\* disabled as the set has members
PostPass(m, ports) ==
    LET disabled == {j \in 1..Len(ports) :
                        PortName(j) \in m[1] /\ ~ports[j].enabled}
    IN  IF m[1] # {} /\ Cardinality(disabled) = Cardinality(m[1])
        THEN [m EXCEPT ![1] = {}]
        ELSE m

IndexKeys(m) == {v \in PortVlans : m[v] # {}}

\* what the handler hands to the exclusive-list check as the measured set:
\* set(map_vl2ifs) in the appliance, all_device_vlans in the switch
ObservedVlans(family, ports, E, m) ==
    IF family = "appliance" THEN IndexKeys(m)
    ELSE UNION {DeviceVlans(ports[i], E) : i \in 1..Len(ports)}

\* The correlator of a family is applied to a port-configuration list and
\* the expected VLAN ids.
CorrelateVlansToPorts(t, family, ports, E) ==
    LET m == PostPass(LoopIndex(family, ports, E), ports)
        f == [IdleFrame EXCEPT !.op = "correlate", !.handler = family,
                 !.arg = [ports |-> ports, expected |-> E]]
    IN  /\ Free(t)
        /\ task' = [task EXCEPT ![t] =
              IF \E i \in 1..Len(ports) : PortRaises(family, ports[i])
              THEN Raised(f, "ValueError")
              ELSE Returned([f EXCEPT !.results =
                                << m, ObservedVlans(family, ports, E, m) >>],
                            "results", {})]
        /\ UNCHANGED << g_config, dut_vars, cache_vars, life_vars >>

\* ------------------------------------------------------------------------
\* The plugin hooks: plugin_init and plugin_get_dut
\* ------------------------------------------------------------------------

\* no task has called anything yet
NothingRun == \A u \in Tasks : task[u].pc = "idle"

\* The host calls plugin_init(config) of the plugin_init module, which stores
\* the config in g_meraki.
PluginInit(t, config) ==
    /\ NothingRun
    /\ g_config' = config
    /\ task' = [task EXCEPT ![t] =
                  Returned([IdleFrame EXCEPT !.op = "plugin_init",
                                             !.call = "plugin_init.plugin_init",
                                             !.arg = config], "None", {})]
    /\ UNCHANGED << dut_vars, cache_vars, life_vars >>

\* The host calls plugin_init(config) of the package, whose body is `pass`.
PackagePluginInit(t, config) ==
    /\ NothingRun
    /\ task' = [task EXCEPT ![t] =
                  Returned([IdleFrame EXCEPT !.op = "plugin_init",
                                             !.call = "__init__.plugin_init",
                                             !.arg = config], "None", {})]
    /\ UNCHANGED << g_config, dut_vars, cache_vars, life_vars >>

\* device.product_model[0:2]
ProductPrefix(product_model) ==
    SubSeq(product_model, 1, Min(2, Len(product_model)))

\* a table that constructs the wireless class for every Meraki product
DutByProductAllWireless(prefix) ==
    IF prefix \in {<<"M", "X">>, <<"M", "S">>, <<"M", "R">>}
    THEN "wireless" ELSE "None"

\* dut_by_product.get(prefix)
DutByProduct(prefix) ==
    CASE prefix = <<"M", "X">> -> "appliance"
      [] prefix = <<"M", "S">> -> "switch"
      [] prefix = <<"M", "R">> -> "wireless"
      [] OTHER -> "None"

\* A task calls plugin_get_dut(device): a hard error for another os_name, None
\* for an unknown product, else a session d of the product's class, whose
\* __init__ sets the fields of the session.
PluginGetDut(t, device) ==
    LET f == [IdleFrame EXCEPT !.op = "plugin_get_dut", !.arg = device]
        dut_cls == DutByProduct(ProductPrefix(device.product_model))
    IN  /\ Free(t)
        /\ IF device.os_name # "meraki"
           THEN /\ task' = [task EXCEPT ![t] = Raised(f, "RuntimeError_os_name")]
                /\ UNCHANGED << dut_vars, cache_vars >>
           ELSE IF dut_cls = "None"
           THEN /\ task' = [task EXCEPT ![t] = Returned(f, "None", {})]
                /\ UNCHANGED << dut_vars, cache_vars >>
           ELSE \E d \in DUTs :
                /\ DutFamily(d) = dut_cls
                /\ life[d] = "Uninitialized"
                /\ task' = [task EXCEPT ![t] =
                              Returned([f EXCEPT !.dut = d], "dut", {d})]
                /\ meraki_orgid' = [meraki_orgid EXCEPT ![d] = EnvOrgId]
                /\ meraki_device' = [meraki_device EXCEPT ![d] = NoRecord]
                /\ meraki_device_reachable' =
                      [meraki_device_reachable EXCEPT ![d] = FALSE]
                /\ api_cache' = [api_cache EXCEPT ![d] = << >>]
                /\ lock_holder' = [lock_holder EXCEPT ![d] = NoTask]
                /\ lock_waiters' = [lock_waiters EXCEPT ![d] = << >>]
                /\ UNCHANGED remote_ok
        /\ UNCHANGED << g_config, life_vars >>

\* ------------------------------------------------------------------------
\* Specifications
\* ------------------------------------------------------------------------

Init ==
    /\ g_config \in Configs
    /\ meraki_orgid = [d \in DUTs |-> NoValue]
    /\ meraki_device = [d \in DUTs |-> NoRecord]
    /\ meraki_device_reachable = [d \in DUTs |-> FALSE]
    /\ api_cache = [d \in DUTs |-> << >>]
    /\ lock_holder = [d \in DUTs |-> NoTask]
    /\ lock_waiters = [d \in DUTs |-> << >>]
    /\ task = [t \in Tasks |-> IdleFrame]
    /\ remote_ok = [d \in DUTs |-> [k \in AllKeys |-> 0]]
    /\ life = [d \in DUTs |-> "Uninitialized"]
    /\ ever_failed = [d \in DUTs |-> FALSE]
    /\ probe_all_failed = [d \in DUTs |-> FALSE]

\* The host framework drives one session from one task: setup, the check
\* collections, teardown, and accessor calls, in any order the session accepts.
Next ==
    \/ \E p \in Payloads : FetchReturn("t1", p)
    \/ \E e \in RemoteErrors : FetchRaise("t1", e)
    \/ Setup("t1", "d1")
    \/ \E a \in InventoryAnswers : InventoryReturn("t1", a)
    \/ \E e \in RemoteErrors : InventoryRaise("t1", e)
    \/ \E s \in PingStatuses : ReqReturn("t1", s)
    \/ \E e \in RemoteErrors : ReqRaise("t1", e)
    \/ BackoffWake("t1")
    \/ PollWake("t1")
    \/ \E kind \in Kinds : ExecuteChecks("t1", "d1", kind)
    \/ Teardown("t1", "d1")

Spec == Init /\ [][Next]_vars

\* Concurrent tasks (check handlers) call the cached accessor of one session.
NextCache ==
    \/ \E t \in Tasks, k \in Keys, c \in Calls : ApiCacheGet(t, "d1", k, c)
    \/ \E t \in Tasks : LockWake(t)
    \/ \E t \in Tasks, p \in Payloads : FetchReturn(t, p)
    \/ \E t \in Tasks, e \in RemoteErrors : FetchRaise(t, e)

SpecCache == Init /\ [][NextCache]_vars

\* every remote invocation returns or raises, and the event loop runs a
\* waiter that release() woke
SpecCacheFair ==
    /\ SpecCache
    /\ \A t \in Tasks :
          /\ WF_vars(\/ \E p \in Payloads : FetchReturn(t, p)
                     \/ \E e \in RemoteErrors : FetchRaise(t, e))
          /\ WF_vars(LockWake(t))

\* Tasks call functions wrapped by the retry policies.
NextRetry ==
    \/ \E t \in Tasks, policy \in Policies : WrappedRequest(t, policy)
    \/ \E t \in Tasks, s \in PingStatuses : ReqReturn(t, s)
    \/ \E t \in Tasks, e \in RemoteErrors : ReqRaise(t, e)
    \/ \E t \in Tasks : BackoffWake(t)

SpecRetry == Init /\ [][NextRetry]_vars

\* no other session than d has been used
OnlySession(d) == \A x \in DUTs \ {d} : life[x] = "Uninitialized"

\* The host framework runs one session, of any of the three product families,
\* from one task: setup() whose remote calls succeed, then check collections
\* of every kind.
NextDispatch ==
    \/ \E p \in Payloads : FetchReturn("t1", p)
    \/ \E e \in RemoteErrors : FetchRaise("t1", e)
    \/ \E d \in DUTs : OnlySession(d) /\ Setup("t1", d)
    \/ \E a \in InventoryAnswers : InventoryReturn("t1", a)
    \/ \E s \in PingStatuses : ReqReturn("t1", s)
    \/ PollWake("t1")
    \/ \E d \in DUTs, kind \in AllKinds :
          OnlySession(d) /\ ExecuteChecks("t1", d, kind)

SpecDispatch == Init /\ [][NextDispatch]_vars

\* One session's accessor call is suspended in a remote call that never
\* returns; another task drives a second session.
HungFetch(t) ==
    ApiCacheGet(t, "d1", "orgs", "organizations.getOrganizations")

OtherSessionReturns(t) ==
    \/ \E p \in Payloads : FetchReturn(t, p)
    \/ \E e \in RemoteErrors : FetchRaise(t, e)
    \/ \E a \in InventoryAnswers : InventoryReturn(t, a)
    \/ \E s \in PingStatuses : ReqReturn(t, s)
    \/ PollWake(t)

NextSessions ==
    \/ HungFetch("t1")
    \/ ApiCacheGet("t2", "d2", "lldp_status", "devices.getDeviceLldpCdp")
    \/ Setup("t2", "d2")
    \/ \E kind \in Kinds : ExecuteChecks("t2", "d2", kind)
    \/ OtherSessionReturns("t2")

\* the remote calls of the second session are answered and the event loop
\* runs every task that is ready
SpecSessions ==
    Init /\ [][NextSessions]_vars /\ WF_vars(OtherSessionReturns("t2"))

\* The host sets up the sessions of two devices of one process, one after
\* the other; the devices answer the ping at the first poll.
NextProcess ==
    \/ \E d \in {"d1", "d2"} : Setup("t1", d)
    \/ \E p \in Payloads : FetchReturn("t1", p)
    \/ \E e \in RemoteErrors : FetchRaise("t1", e)
    \/ \E a \in InventoryAnswers : InventoryReturn("t1", a)
    \/ ReqReturn("t1", "complete")
    \/ PollWake("t1")

SpecProcess == Init /\ [][NextProcess]_vars

\* A vlans handler correlates the port configuration it fetched.
NextCorrelate ==
    /\ NothingRun
    /\ \E family \in {"appliance", "switch"}, E \in ExpectedSets :
          \E ports \in PortLists(family) :
              CorrelateVlansToPorts("t1", family, ports, E)

SpecCorrelate == Init /\ [][NextCorrelate]_vars

\* Handlers evaluate check collections against fetched payloads.
NextChecks ==
    \E h \in CheckHandlers, checks \in CheckLists, msrd \in Measurements,
       has_data \in BOOLEAN :
        EvaluateChecks("t1", h, checks, msrd, has_data)

SpecChecks == Init /\ [][NextChecks]_vars

\* The vlans handlers and their exclusive-list functions evaluate VLAN data.
NextVlans ==
    \/ \E family \in VlanFamilies, E \in SUBSET VlanIds, M \in SUBSET VlanIds :
           CheckExclusiveList("t1", family, E, M)
    \/ \E family \in {"appliance", "switch"}, checks \in VlanCheckLists,
          vl2ifs \in [VlanIds -> SUBSET MsrdIfNames] :
           vl2ifs[30] = {} /\ CheckVlans("t1", family, checks, vl2ifs)

SpecVlans == Init /\ [][NextVlans]_vars

\* The state of the process before a plugin_init hook has run.
InitPlugin ==
    /\ g_config = NoConfig
    /\ meraki_orgid = [d \in DUTs |-> NoValue]
    /\ meraki_device = [d \in DUTs |-> NoRecord]
    /\ meraki_device_reachable = [d \in DUTs |-> FALSE]
    /\ api_cache = [d \in DUTs |-> << >>]
    /\ lock_holder = [d \in DUTs |-> NoTask]
    /\ lock_waiters = [d \in DUTs |-> << >>]
    /\ task = [t \in Tasks |-> IdleFrame]
    /\ remote_ok = [d \in DUTs |-> [k \in AllKeys |-> 0]]
    /\ life = [d \in DUTs |-> "Uninitialized"]
    /\ ever_failed = [d \in DUTs |-> FALSE]
    /\ probe_all_failed = [d \in DUTs |-> FALSE]

\* The host calls one of the two plugin_init hooks first, then constructs
\* sessions with plugin_get_dut and drives the session d1.
NextPlugin ==
    \/ \E config \in Configs : PluginInit("t1", config)
    \/ \E config \in Configs : PackagePluginInit("t1", config)
    \/ \E device \in Devices : PluginGetDut("t1", device)
    \/ Next

SpecPlugin == InitPlugin /\ [][NextPlugin]_vars

\* ------------------------------------------------------------------------
\* Properties
\* ------------------------------------------------------------------------

GetDone(t) == task[t].op = "get" /\ task[t].pc = "done"

\* C1: per key of a session the remote operation returns at most once, and
\* every caller of api_cache_get that has returned holds the payload the
\* cache holds for its key.
C1_SingleFlight ==
    /\ \A d \in DUTs, k \in Keys : remote_ok[d][k] <= 1
    /\ \A t \in Tasks :
          GetDone(t) => task[t].ret = api_cache[task[t].dut][task[t].key]

\* C2: no remote invocation is in flight for a key that has a cache entry,
\* whatever the entry holds (an empty payload included).
C2_EmptyPayloadIsCached ==
    \A t \in Tasks :
        task[t].pc = "fetch" => task[t].key \notin DOMAIN api_cache[task[t].dut]

\* C3: a step in which the remote invocation of api_cache_get raises gives
\* the error to the task that made the invocation and to no other, leaves the
\* cache as it was, with no data under the key (the next call fetches again),
\* and releases the lock.
C3_ErrorNotCached ==
    [][ \A t \in Tasks :
          (task[t].pc = "fetch" /\ task'[t].pc = "raised") =>
             /\ task'[t].err \in RemoteErrors
             /\ api_cache' = api_cache
             /\ ~HasData(api_cache'[task[t].dut], task[t].key)
             /\ lock_holder'[task[t].dut] # t
             /\ \A u \in Tasks \ {t} : task'[u] = task[u] ]_vars

\* a call raised, and a later call for the same key is invoking the remote
\* operation again
C3_Witness ==
    \E t, u \in Tasks :
        /\ task[t].op = "get" /\ task[t].pc = "raised"
        /\ task[t].err \in RemoteErrors
        /\ task[u].pc = "fetch" /\ task[u].dut = task[t].dut
        /\ task[u].key = task[t].key

\* C4 as stated: a call waits for the lock only behind a fetch of its own key
\* (a fetch for another key never blocks it).
C4_KeysIndependent ==
    \A a, b \in Tasks :
        (task[a].pc = "fetch" /\ task[b].pc = "lock_wait"
            /\ task[a].dut = task[b].dut) => task[a].key = task[b].key

\* C4 as amended: the calls of one session are serialized by its single lock
\* whatever their keys; at most one remote fetch of a session is in flight,
\* made by the holder of the lock, and every other caller waits in the queue.
C4_OneFetchPerSession ==
    \A a \in Tasks :
        task[a].pc = "fetch" =>
            /\ lock_holder[task[a].dut] = a
            /\ \A b \in Tasks \ {a} :
                  task[b].dut = task[a].dut => task[b].pc # "fetch"

\* a call for one key waits while the fetch for another key is in flight
C4_Witness ==
    \E a, b \in Tasks :
        /\ task[a].pc = "fetch" /\ task[b].pc = "lock_wait"
        /\ task[a].dut = task[b].dut /\ task[a].key # task[b].key

Wrapped(t) == task[t].op = "request"

\* C5: a wrapped call is invoked at most MaxAttempts times, with one wait
\* before every attempt but the first; it raises the retry-exhausted error
\* exactly when the attempt numbered MaxAttempts fails with 429.
C5_RetryBound ==
    \A t \in Tasks :
        Wrapped(t) =>
            /\ task[t].calls <= MaxAttempts
            /\ task[t].pc = "req" => task[t].waits = task[t].calls - 1
            /\ (task[t].pc = "raised" /\ task[t].last_exc = "AsyncAPIError429")
                  => /\ task[t].err = "RetryError"
                     /\ task[t].calls = MaxAttempts
                     /\ task[t].waits = MaxAttempts - 1
            /\ (task[t].pc = "backoff") =>
                  /\ task[t].calls < MaxAttempts
                  /\ task[t].sleep > 0
            /\ task[t].err = "RetryError" =>
                  task[t].last_exc = "AsyncAPIError429"

\* a wrapped call ended in the retry-exhausted error
C5_Witness ==
    \E t \in Tasks :
        Wrapped(t) /\ task[t].pc = "raised" /\ task[t].err = "RetryError"

C7_RateLimitRecovered ==
    \A t \in Tasks :
        (task[t].op \in {"setup", "exec", "get"} /\ task[t].pc = "raised")
            => task[t].err # "AsyncAPIError429"

\* a check handler was dispatched by the task's execute_checks call and found
\* the device record it reads
HandlerRan(t) ==
    task[t].handler # "none" /\ task[t].err # "TypeError"

\* C8: a check handler is run only on a session that is Ready, and a session
\* one of whose setup() calls has failed is never Ready.
C8_Lifecycle ==
    /\ \A t \in Tasks : HandlerRan(t) => task[t].life_at_call = "Ready"
    /\ \A d \in DUTs : ever_failed[d] => life[d] # "Ready"

\* setup() has run its probe to the end, without a probe-API error, and
\* every poll returned the status "failed"
ProbeEndedFailed(t) ==
    /\ task[t].op = "setup" /\ task[t].pc \in {"done", "raised"}
    /\ task[t].all_failed /\ task[t].polls > 0 /\ task[t].caught = "none"
    /\ task[t].err \notin RemoteErrors \cup {"RetryError"}

\* the probe part of C9: bounded polls, flag False, the reachability error
C9_ProbeFails ==
    \A t \in Tasks :
        ProbeEndedFailed(t) =>
            /\ task[t].pc = "raised"
            /\ task[t].err = "RuntimeError_unreachable"
            /\ task[t].polls = PingTimeout
            /\ ~meraki_device_reachable[task[t].dut]

\* C9: a probe whose polls return "failed" ends setup() after PingTimeout
\* polls with the flag False and the reachability error, and no check handler
\* is run on the session after that.
C9_UnreachableIsFatal ==
    /\ C9_ProbeFails
    /\ \A t \in Tasks :
          (HandlerRan(t) /\ task[t].life_at_call = "Unreachable")
              => ~probe_all_failed[task[t].dut]

\* C10: when the inventory lookup returns no record or more than one, setup()
\* raises the not-found error and has not started the probe.
C10_NotFoundOnZeroOrMany ==
    \A t \in Tasks :
        (task[t].op = "setup" /\ task[t].inv_len \notin {-1, 1})
            => /\ task[t].pc = "raised"
               /\ task[t].err = "RuntimeError_not_found"
               /\ task[t].stage = "none"
               /\ task[t].polls = 0

\* C11: execute_checks resolves a kind on the family class first and on the
\* base class second: the family's cabling and ip-address handlers run for
\* their kinds, and the device-information kind, registered on the base class
\* only, runs the base handler on a session of any family, which returns its
\* results once setup() has stored the device record.
C11_DispatchOrder ==
    \A t \in Tasks :
        task[t].op = "exec" =>
            LET d == task[t].dut
                fam == DutFamily(d)
            IN  /\ task[t].kind = "cabling" => task[t].handler = fam \o "_cabling"
                /\ (task[t].kind = "ipaddrs" /\ fam # "switch")
                      => task[t].handler = fam \o "_ipaddrs"
                /\ task[t].kind = "device" =>
                      /\ task[t].handler = "meraki_check_device_info"
                      /\ meraki_device[d] # NoRecord =>
                            /\ task[t].pc = "done"
                            /\ task[t].ret_kind = "results"
                            /\ task[t].ret = {meraki_device[d]}

\* the device-information collection returned results on a Ready appliance
\* session
C11_Witness ==
    /\ task["t1"].op = "exec" /\ task["t1"].kind = "device"
    /\ task["t1"].dut = "d3" /\ DutFamily("d3") = "appliance"
    /\ life["d3"] = "Ready"
    /\ task["t1"].pc = "done" /\ task["t1"].ret_kind = "results"

\* the kind of a collection is registered neither on the class of session d
\* nor on the base class
Unregistered(d, kind) ==
    \/ kind = "transceivers"
    \/ kind = "ipaddrs" /\ DutFamily(d) = "switch"

\* C12: a step in which a task calls execute_checks with a kind registered
\* nowhere for its session ends the call with None: nothing is raised, no
\* handler runs, no remote call starts and the session state, the cache and
\* the lock are unchanged.
C12_UnregisteredSkips ==
    [][ \A t \in Tasks :
          (Free(t) /\ task'[t] # task[t] /\ task'[t].op = "exec"
              /\ Unregistered(task'[t].dut, task'[t].kind)) =>
             /\ task'[t].pc = "done"
             /\ task'[t].ret_kind = "None"
             /\ task'[t].handler = "none"
             /\ task'[t].err = "none"
             /\ UNCHANGED << g_config, dut_vars, cache_vars, life_vars >> ]_vars

\* an ip-address collection was skipped on a Ready switch session
C12_Witness ==
    /\ task["t1"].op = "exec" /\ task["t1"].kind = "ipaddrs"
    /\ task["t1"].dut = "d2" /\ DutFamily("d2") = "switch"
    /\ life["d2"] = "Ready"
    /\ task["t1"].pc = "done" /\ task["t1"].ret_kind = "None"

\* a session as its constructor leaves it: no device record, not reachable,
\* nothing cached, no remote call made, the lock free
Fresh(d) ==
    /\ meraki_device[d] = NoRecord
    /\ ~meraki_device_reachable[d]
    /\ api_cache[d] = << >>
    /\ \A k \in AllKeys : remote_ok[d][k] = 0
    /\ lock_holder[d] = NoTask /\ lock_waiters[d] = << >>
    /\ life[d] = "Uninitialized"

\* the product model starts with the two characters a, b
StartsWith(product_model, a, b) ==
    Len(product_model) >= 2 /\ product_model[1] = a /\ product_model[2] = b

\* C13: plugin_get_dut raises its hard error exactly for a device whose
\* os_name is not "meraki"; otherwise it returns None for a product model
\* that does not start with MX, MS or MR, and else one fresh session of the
\* appliance (MX), switch (MS) or wireless (MR) class.
C13_GetDut ==
    \A t \in Tasks :
        task[t].op = "plugin_get_dut" =>
            LET dev == task[t].arg
                pm == dev.product_model
                cls == IF StartsWith(pm, "M", "X") THEN "appliance"
                       ELSE IF StartsWith(pm, "M", "S") THEN "switch"
                       ELSE IF StartsWith(pm, "M", "R") THEN "wireless"
                       ELSE "None"
            IN  /\ dev.os_name # "meraki" <=>
                      (task[t].pc = "raised"
                          /\ task[t].err = "RuntimeError_os_name")
                /\ dev.os_name = "meraki" =>
                      /\ task[t].pc = "done"
                      /\ cls = "None" <=> task[t].ret_kind = "None"
                      /\ cls # "None" =>
                            /\ task[t].ret_kind = "dut"
                            /\ Cardinality(task[t].ret) = 1
                            /\ \A d \in task[t].ret :
                                  DutFamily(d) = cls /\ Fresh(d)

\* plugin_get_dut returned a switch session for an MS product
C13_Witness ==
    \E t \in Tasks :
        /\ task[t].op = "plugin_get_dut" /\ task[t].pc = "done"
        /\ task[t].arg.os_name = "meraki"
        /\ StartsWith(task[t].arg.product_model, "M", "S")
        /\ task[t].ret = {"d2"} /\ DutFamily("d2") = "switch"

\* C14: a step in which a plugin_init hook is called leaves exactly the
\* config it was given in the process-wide state, and no other step changes
\* that state.
C14_ConfigStoredOnce ==
    [][ /\ \A t \in Tasks :
              (task'[t].op = "plugin_init" /\ task'[t] # task[t])
                  => g_config' = task'[t].arg
        /\ (\A t \in Tasks :
               ~(task'[t].op = "plugin_init" /\ task'[t] # task[t]))
                  => g_config' = g_config ]_vars

\* the results a handler run holds for the identifier id
ResultsFor(t, id) ==
    LET r == task[t].results
        Sel(x) == x[1] = id
    IN  SelectSeq(r, Sel)

\* C15: in a handler run that went through its collection, every check
\* whose identifier has no measured entity has exactly one result, a
\* FailNoExists, and the checks after it have their results too.
C15_MissingEntityFails ==
    \A t \in Tasks :
        (task[t].op = "check" /\ task[t].pc = "done") =>
            LET a == task[t].arg
                h == task[t].handler
            IN  \A i \in 1..Len(a.checks) :
                  LET id == a.checks[i]
                  IN  /\ (a.measured[id] = "absent"
                            /\ ~(h = "wireless_interfaces" /\ id = "wan1"))
                          => ResultsFor(t, id) = << <<id, "FailNoExists">> >>
                      /\ (a.measured[id] = "differ"
                            /\ ~(h = "wireless_interfaces" /\ id = "wan1"))
                          => ResultsFor(t, id) = << <<id, "FailFieldMismatch">> >>

\* C16: a vlans handler never raises because a measured interface set
\* differs from the expected one: the handler returns, and every check whose
\* sets differ has a FailFieldMismatch result, whatever the interface names.
C16_MismatchNeverRaises ==
    \A t \in Tasks :
        (task[t].op = "check_vlans" /\ task[t].pc \in {"done", "raised"}) =>
            /\ task[t].pc = "done"
            /\ \A i \in 1..Len(task[t].arg.checks) :
                  LET c == task[t].arg.checks[i]
                      family == IF task[t].handler = "appliance_vlans"
                                THEN "appliance" ELSE "switch"
                      msrd == task[t].arg.measured[IntOfId(c.id)]
                  IN  msrd # ExpdIfSet(family, c) =>
                        \E j \in 1..Len(task[t].results) :
                            task[t].results[j] = <<c.id, "FailFieldMismatch", msrd>>

\* C17: the exclusive-list check of expected set E and measured set M has a
\* missing-members failure, listing E \ M, iff E \ M is not empty; a separate
\* extra-members failure, listing M \ E, iff M \ E is not empty; a Pass iff
\* E = M; and nothing else.
C17_ExclusiveList ==
    \A t \in Tasks :
        (task[t].op = "exclusive_list" /\ task[t].pc = "done") =>
            LET E == task[t].arg.expected
                M == task[t].arg.measured
                r == task[t].results
                Has(kind, members) ==
                    \E j \in 1..Len(r) : r[j] = <<"exclusive_list", kind, members>>
                HasKind(kind) == \E j \in 1..Len(r) : r[j][2] = kind
            IN  /\ HasKind("FailMissingMembers") <=> E \ M # {}
                /\ HasKind("FailMissingMembers") => Has("FailMissingMembers", E \ M)
                /\ HasKind("FailExtraMembers") <=> M \ E # {}
                /\ HasKind("FailExtraMembers") => Has("FailExtraMembers", M \ E)
                /\ HasKind("Pass") <=> E = M
                /\ Len(r) = (IF E \ M # {} THEN 1 ELSE 0)
                            + (IF M \ E # {} THEN 1 ELSE 0)
                            + (IF E = M THEN 1 ELSE 0)

\* the exclusive list of E = {10, 20} against M = {10, 30} gave two failures
C17_Witness ==
    \E t \in Tasks :
        /\ task[t].op = "exclusive_list" /\ task[t].pc = "done"
        /\ task[t].arg = [expected |-> {10, 20}, measured |-> {10, 30}]
        /\ task[t].results = << <<"exclusive_list", "FailMissingMembers", {20}>>,
                                <<"exclusive_list", "FailExtraMembers", {30}>> >>

\* session d1's accessor is suspended in its remote call, holding d1's lock
Hung(t) ==
    /\ task[t].op = "get" /\ task[t].pc = "fetch" /\ task[t].dut = "d1"
    /\ lock_holder["d1"] = t

\* C18: while the accessor of session d1 hangs in its remote call holding
\* d1's cache lock, an operation (api_cache_get, setup, execute_checks) that
\* another task started on session d2 never waits for a lock and completes.
C18_SessionsIndependent ==
    /\ [](Hung("t1") => task["t2"].pc # "lock_wait")
    /\ (Hung("t1") /\ ~Free("t2")) ~> Free("t2")

\* with d1 hung, the other task has set up session d2 and then run a check
\* handler that fetched and cached its payload in d2's own cache
C18_Witness ==
    /\ Hung("t1")
    /\ task["t2"].op = "exec" /\ task["t2"].pc = "done"
    /\ task["t2"].dut = "d2" /\ life["d2"] = "Ready"
    /\ "lldp_status" \in DOMAIN api_cache["d2"]
    /\ api_cache["d1"] = << >>

\* setup() of task t ended after ping_check created its job and polled it,
\* and no probe-API error reached ping_check
PingPolledOk(t) ==
    /\ task[t].op = "setup" /\ task[t].pc \in {"done", "raised"}
    /\ task[t].polls > 0 /\ task[t].caught = "none"
    /\ task[t].err \in {"none", "RuntimeError_unreachable"}

\* C19: when the ping job was created and every poll succeeded, the
\* reachable flag after ping_check is TRUE iff the last observed job status
\* is "complete"; any other last status makes setup() fail.
C19_ReachableIffComplete ==
    \A t \in Tasks :
        PingPolledOk(t) =>
            /\ meraki_device_reachable[task[t].dut]
                    <=> task[t].ping_status = "complete"
            /\ task[t].ping_status # "complete" => task[t].pc = "raised"

\* C20: ping_check polls at most PingTimeout times, and when the polls are
\* used up without a "complete" it ends and the status it returns to its
\* caller is "timeout".
C20_BoundedPollsTimeout ==
    \A t \in Tasks :
        task[t].op = "setup" =>
            /\ task[t].polls <= PingTimeout
            /\ (PingPolledOk(t) /\ task[t].polls = PingTimeout
                    /\ task[t].ping_status # "complete")
                  => task[t].ping_status = "timeout"

\* a step in which a ping wrapper of task t's setup() raises to ping_check:
\* the request ends the operation without a poll being counted
ProbeRaises(t) ==
    /\ task[t].op = "setup" /\ task[t].pc = "req"
    /\ task'[t].pc \in {"done", "raised"}
    /\ task'[t].polls = task[t].polls

OrgLookups ==
    remote_ok["d1"]["orgs"] + remote_ok["d2"]["orgs"] + remote_ok["d3"]["orgs"]
        + Cardinality({t \in Tasks : task[t].pc = "fetch" /\ task[t].key = "orgs"})

\* C22: across the setup() calls of all sessions of the process the
\* organizations lookup is invoked at most once, and never when an
\* organization id is configured.
C22_OrgResolvedOncePerProcess ==
    /\ OrgLookups <= 1
    /\ g_config.org_id # NoValue => OrgLookups = 0

\* task t's correlator returned its index and the observed-VLAN set
Correlated(t) == task[t].op = "correlate" /\ task[t].pc = "done"

\* C23: for one enabled trunk port with allowedVlans "all" and expected
\* VLAN ids E, the returned index has the port under every VLAN of E and
\* under no VLAN outside E, whatever the native VLAN; for both families.
C23_AllExpandsToExpected ==
    \A t \in Tasks :
        Correlated(t) =>
            LET ports == task[t].arg.ports
                E == task[t].arg.expected
                m == task[t].results[1]
            IN  (Len(ports) = 1 /\ ports[1].enabled /\ ports[1].type = "trunk"
                    /\ ports[1].allowedVlans = "all")
                  => \A v \in PortVlans : PortName(1) \in m[v] <=> v \in E

\* C24: for two access ports both on VLAN 1, the returned index has no
\* entry for VLAN 1 when both are disabled, and maps VLAN 1 to exactly the
\* enabled port when exactly one is enabled; for both families.
C24_Vlan1Suppression ==
    \A t \in Tasks :
        Correlated(t) =>
            LET ports == task[t].arg.ports
                m == task[t].results[1]
            IN  (Len(ports) = 2
                    /\ \A i \in 1..2 : ports[i].type = "access" /\ ports[i].vlan = 1)
                  => /\ (~ports[1].enabled /\ ~ports[2].enabled) => m[1] = {}
                     /\ (ports[1].enabled /\ ~ports[2].enabled) => m[1] = {"1"}
                     /\ (~ports[1].enabled /\ ports[2].enabled) => m[1] = {"2"}

\* the classification of the claim: appliance, disabled trunk that drops
\* untagged traffic; switch, disabled access port on VLAN 1
ClaimedUnused(family, r) ==
    IF family = "appliance"
    THEN ~r.enabled /\ r.type = "trunk" /\ r.dropUntaggedTraffic
    ELSE r.type = "access" /\ r.vlan = 1 /\ ~r.enabled

\* an unused port is in no interface set of the index, and a device of
\* unused ports only has no observed VLAN
UnusedContributesNothing(t) ==
    LET ports == task[t].arg.ports
        family == task[t].handler
        m == task[t].results[1]
    IN  /\ \A i \in 1..Len(ports) :
              ClaimedUnused(family, ports[i])
                  => \A v \in PortVlans : PortName(i) \notin m[v]
        /\ (\A i \in 1..Len(ports) : ClaimedUnused(family, ports[i]))
              => task[t].results[2] = {}

\* C25 as stated: an unused port contributes nothing, and the assigned or
\* native VLAN of every other port is among the observed VLANs.
C25_UnusedSkippedOthersContribute ==
    \A t \in Tasks :
        Correlated(t) =>
            /\ UnusedContributesNothing(t)
            /\ \A i \in 1..Len(task[t].arg.ports) :
                  LET r == task[t].arg.ports[i]
                  IN  (~ClaimedUnused(task[t].handler, r) /\ r.vlan # NoVlan)
                        => r.vlan \in task[t].results[2]

\* C25 amended: an unused port contributes nothing, and the assigned or
\* native VLAN of every other port is among the observed VLANs, unless it is
\* VLAN 1 and the index has no entry for VLAN 1 (the post-pass removed it).
C25_UnusedSkippedOthersContributeButVlan1 ==
    \A t \in Tasks :
        Correlated(t) =>
            /\ UnusedContributesNothing(t)
            /\ \A i \in 1..Len(task[t].arg.ports) :
                  LET r == task[t].arg.ports[i]
                  IN  (~ClaimedUnused(task[t].handler, r) /\ r.vlan # NoVlan)
                        => \/ r.vlan \in task[t].results[2]
                           \/ r.vlan = 1 /\ task[t].results[1][1] = {}

\* an unused trunk on VLAN 10 next to an enabled access port on VLAN 1: the
\* index holds the access port only
C25_Witness ==
    \E t \in Tasks :
        /\ Correlated(t) /\ task[t].handler = "appliance"
        /\ Len(task[t].arg.ports) = 2
        /\ ClaimedUnused("appliance", task[t].arg.ports[1])
        /\ task[t].arg.ports[1].vlan = 10
        /\ task[t].arg.ports[2].type = "access" /\ task[t].arg.ports[2].enabled
        /\ task[t].arg.ports[2].vlan = 1
        /\ task[t].results[2] = {1}
        /\ task[t].results[1][1] = {"2"}

\* C26: the observed-VLAN set handed to the exclusive-list check equals the
\* set of keys of the returned index.
C26_ObservedEqualsKeys ==
    \A t \in Tasks :
        Correlated(t) => task[t].results[2] = IndexKeys(task[t].results[1])

\* the per-VLAN results a vlans handler run holds for the check id
VlanResultsFor(t, id) ==
    LET Sel(x) == x[1] = id
    IN  SelectSeq(task[t].results, Sel)

\* C27: the per-VLAN check gives a Pass iff the interface set the correlator
\* produced for the VLAN id (empty when the VLAN has no interface) equals
\* the design's expected interface set, and one field-mismatch result
\* otherwise; expected on no interface and measured on none is a Pass.
C27_PerVlanSetEquality ==
    \A t \in Tasks :
        (task[t].op = "check_vlans" /\ task[t].pc \in {"done", "raised"}) =>
            /\ task[t].pc = "done"
            /\ \A i \in 1..Len(task[t].arg.checks) :
                  LET c == task[t].arg.checks[i]
                      msrd == task[t].arg.measured[IntOfId(c.id)]
                  IN  VlanResultsFor(t, c.id) =
                        IF msrd = c.interfaces
                        THEN << <<c.id, "Pass", msrd>> >>
                        ELSE << <<c.id, "FailFieldMismatch", msrd>> >>

\* the lock of a session is held only by a task that is inside
\* api_cache_get of that session, and its holder does not queue for it
LockHeldInside ==
    \A d \in DUTs :
        /\ lock_holder[d] # NoTask =>
              /\ task[lock_holder[d]].pc \in {"fetch", "lock_wait"}
              /\ task[lock_holder[d]].dut = d
              /\ \A i \in 1..Len(lock_waiters[d]) :
                    lock_waiters[d][i] # lock_holder[d]
        /\ \A i \in 1..Len(lock_waiters[d]) :
              task[lock_waiters[d][i]].pc = "lock_wait"

\* C28: the cache lock is released on every exit of api_cache_get and never
\* acquired by the task that holds it, and when every remote invocation
\* returns or raises, every pending api_cache_get call returns or raises.
C28_NoDeadlockNoStarvation ==
    /\ []LockHeldInside
    /\ \A t \in Tasks :
          (task[t].op = "get" /\ ~Free(t)) ~> Free(t)

\* a task queues for the lock that another task holds during its fetch
C28_Witness ==
    /\ task["t1"].pc = "fetch" /\ lock_holder["d1"] = "t1"
    /\ task["t2"].pc = "lock_wait" /\ lock_waiters["d1"] = <<"t2">>

\* the positions of setup() inside ping_check
InProbe(t) ==
    task[t].op = "setup" /\ task[t].pc \in {"req", "backoff", "poll_sleep"}

\* C29: a reachable session has its organization id resolved and holds its
\* inventory record; setup() looks up the inventory only with the
\* organization resolved and probes only with the record stored; and a
\* setup() that failed in an earlier step made no later call.
C29_SetupOrder ==
    /\ \A d \in DUTs :
          meraki_device_reachable[d] =>
              meraki_orgid[d] # NoValue /\ meraki_device[d] # NoRecord
    /\ \A t \in Tasks :
          /\ (task[t].op = "setup" /\ task[t].pc = "inventory")
                => meraki_orgid[task[t].dut] # NoValue
          /\ InProbe(t) =>
                /\ meraki_orgid[task[t].dut] # NoValue
                /\ meraki_device[task[t].dut] # NoRecord
                /\ task[t].inv_len > 0
          /\ (task[t].op = "setup" /\ task[t].pc = "raised"
                  /\ task[t].err \in {"RuntimeError_org_name",
                                       "RuntimeError_no_organization"})
                => task[t].inv_len = -1 /\ task[t].ping_status = "none"
          /\ (task[t].op = "setup" /\ task[t].pc = "raised"
                  /\ task[t].err = "RuntimeError_not_found")
                => task[t].ping_status = "none" /\ task[t].polls = 0

\* setup() resolved the organization by name, stored the record and found
\* the device reachable
C29_Witness ==
    /\ task["t1"].op = "setup" /\ task["t1"].pc = "done"
    /\ meraki_device_reachable["d1"]
    /\ meraki_orgid["d1"] = OrgIdOf("acme")
    /\ meraki_device["d1"] = "r1"
    /\ task["t1"].ping_status = "complete"

\* the result types that are failures
FailTypes == {"FailNoExists", "FailFieldMismatch"}

\* C30: in a handler run that went through its collection, every check has
\* either exactly one Pass and no Fail result, or at least one Fail result
\* and no Pass; no check is left without a result.
C30_ResultsWellFormed ==
    \A t \in Tasks :
        (/\ task[t].op = "check" /\ task[t].pc = "done"
         /\ ~(ReturnsEarly(task[t].handler) /\ ~task[t].arg.has_data)) =>
            \A i \in 1..Len(task[t].arg.checks) :
                LET r == ResultsFor(t, task[t].arg.checks[i])
                    passes == {j \in 1..Len(r) : r[j][2] = "Pass"}
                    fails  == {j \in 1..Len(r) : r[j][2] \in FailTypes}
                IN  \/ Cardinality(passes) = 1 /\ fails = {}
                    \/ fails # {} /\ passes = {}

====
